---- MODULE Spec2Model ----
(***************************************************************************)
(* Model of the transcript-to-note pipeline of audionote-processor:        *)
(*   - ICSParser.match_course            (modules/ics_parser.py)           *)
(*   - LLMHandler._post_process_note     (modules/llm_handler.py)          *)
(*   - LLMHandler.generate_note          (modules/llm_handler.py)          *)
(*   - main, the loop over the files     (main.py)                         *)
(*   - ObsidianManager sequence numbers and note writes                    *)
(*                                       (modules/obsidian_manager.py)     *)
(*                                                                         *)
(* Text is modelled as a sequence of characters, each character a string.  *)
(* The non-ASCII characters of the source are written with ASCII names:    *)
(*   "<brain>" is the emoji U+1F9E0, "<ka>" "<pian>" are the two           *)
(*   characters of the Chinese word for "card", "<yi>" "<ju>" "<hua>"      *)
(*   "<zong>" "<jie>" the five of the "one-sentence summary" title.        *)
(* So are the characters a TLA+ string cannot hold: "<tick>" is the        *)
(* backtick, "<dquote>" and "<squote>" the quotes, "<backslash>" the       *)
(* backslash.                                                              *)
(***************************************************************************)
EXTENDS Integers, Sequences, FiniteSets, TLC

VARIABLES
    events,            \* ICSParser._events, sorted by begin
    semester_start,    \* ICSParser._semester_start_date, as a day number
    target,            \* the timestamp handed to match_course (seconds)
    result,            \* what match_course returned
    mpc,               \* position of the caller: "ready" or "matched"
    content,           \* a model response handed to _post_process_note
    once,              \* _post_process_note(content)
    twice,             \* _post_process_note(once)
    ppc,               \* "idle", "raw", "once" or "twice"
    notes_dir,         \* ObsidianManager.notes_dir: file name -> file content
    transcripts_dir,   \* ObsidianManager.transcripts_dir, likewise
    course_name,       \* ObsidianManager.course_name
    week_num,          \* ObsidianManager.week_num
    seq,               \* main: seq, from get_next_sequence_num
    md_content,        \* the note body handed to save_note
    final_path,        \* save_note: final_path (<<>> outside save_note)
    tmp_path,          \* save_note: tmp_path
    before,            \* what final_path held when save_note began
    saved_seqs,        \* the sequence numbers of the notes saved so far
    overwritten,       \* whether a save replaced an existing note file
    files_done,        \* how many transcripts have been archived
    interrupts,        \* how many times the process was interrupted
    apc,               \* position of the archival of one transcript
    llm_retry_count,   \* config.llm_retry_count
    attempt,           \* generate_note: attempt
    attempts,          \* what each attempt of generate_note met, in order
    calls,             \* note requests sent to the model by generate_note
    fix_calls,         \* second-pass requests sent to the model
    sleeps,            \* how many times generate_note slept the delay
    returned,          \* what generate_note returned
    gpc,               \* position in generate_note: "off", "loop", "returned"
    inbox,             \* the *.txt files of the input directory
    moved,             \* the files of the processed directory
    files,             \* main: files, the sorted names of the scan
    idx,               \* the place in files of the file being processed
    ppos,              \* position in main
    vault,             \* course directory -> names of its notes and transcripts
    meta,              \* main: meta (sequence, transcript_filename)
    read_set,          \* the files read in this run
    llm_sent,          \* the files handed to generate_note in this run
    written,           \* the vault files written in this run, by source file
    made_dirs,         \* the course directories created in this run, by source file
    fate,              \* how each file ended in this run
    skip_cause,        \* why a file could not be processed, if so
    gen_failed,        \* the files for which generate_note returned nothing
    started,           \* the files in the order their processing began
    exit_code,         \* the exit code of the process (0 while it runs)
    runs,              \* how many times the program was started
    retry_due          \* the files an earlier run left after a failed generation

match_vars == <<events, semester_start, target, result, mpc>>

post_vars == <<content, once, twice, ppc>>

archive_vars ==
    <<notes_dir, transcripts_dir, course_name, week_num, seq, md_content,
      final_path, tmp_path, before, saved_seqs, overwritten, files_done,
      interrupts, apc>>

gen_vars ==
    <<llm_retry_count, attempt, attempts, calls, fix_calls, sleeps, returned, gpc>>

pipe_vars ==
    <<inbox, moved, files, idx, ppos, vault, meta, read_set, llm_sent, written,
      made_dirs, fate, skip_cause, gen_failed, started, exit_code, runs,
      retry_due>>

\* what main() leaves alone of the state of the components
pipe_rest_vars ==
    <<post_vars, gen_vars, events, semester_start, mpc, notes_dir,
      transcripts_dir, final_path, tmp_path, before, saved_seqs, overwritten,
      files_done, interrupts, apc>>

vars == <<match_vars, post_vars, archive_vars, gen_vars, pipe_vars>>

(***************************************************************************)
(* Characters and strings                                                  *)
(***************************************************************************)
IsSpace(c) == c \in {" ", "\t", "\n"}

RECURSIVE lstrip(_)
lstrip(s) ==
    IF s # <<>> /\ IsSpace(Head(s)) THEN lstrip(Tail(s)) ELSE s

RECURSIVE rstrip(_)
rstrip(s) ==
    IF s # <<>> /\ IsSpace(s[Len(s)]) THEN rstrip(SubSeq(s, 1, Len(s) - 1)) ELSE s

\* str.strip()
strip(s) == rstrip(lstrip(s))

Abs(x) == IF x < 0 THEN -x ELSE x

Min2(a, b) == IF a <= b THEN a ELSE b

Max2(a, b) == IF a >= b THEN a ELSE b

(***************************************************************************)
(* Calendar Index: ICSParser.match_course                                  *)
(***************************************************************************)
MaxEvents == 2
MaxTick == 6

\* timestamps: half hours after midnight of the semester start day
TimePoints == { k * 1800 : k \in 0..MaxTick }

EventNames == { <<"A">>, <<" ", "B", " ">> }

ParsedEvent ==
    { e \in [name : EventNames, begin : TimePoints, end : TimePoints] :
        e.begin <= e.end }

\* the event lists the constructor can leave: sorted by begin (a stable sort,
\* so events of equal begin stand in any order)
SortedEventLists ==
    UNION { { l \in [1..n -> ParsedEvent] :
                \A i \in 1..(n - 1) : l[i].begin <= l[i + 1].begin } :
            n \in 0..MaxEvents }

None == [is_none |-> TRUE]

calc_week_num_unclamped(dt, start) == 1 + (((dt \div 86400) - start) \div 7)
calc_week_num(dt, start) ==
    LET delta_days == (dt \div 86400) - start
    IN  Max2(1, 1 + (delta_days \div 7))

CourseMatch(ev, t, start) ==
    [is_none |-> FALSE, course_name |-> strip(ev.name),
     week_num |-> calc_week_num(t, start)]

covers(ev, t) == ev.begin <= t /\ t <= ev.end

covering_key_far(ev, t) == 0 - Abs(ev.begin - t)
\* the sort key of the covering events
covering_key(ev, t) == Abs(ev.begin - t)

\* list.sort(key=...): a stable sort, as an insertion sort
RECURSIVE insert_by_key(_, _, _)
insert_by_key(sorted, ev, t) ==
    IF sorted = <<>> THEN <<ev>>
    ELSE IF covering_key(ev, t) < covering_key(Head(sorted), t)
         THEN <<ev>> \o sorted
         ELSE <<Head(sorted)>> \o insert_by_key(Tail(sorted), ev, t)

RECURSIVE sort_covering(_, _)
sort_covering(l, t) ==
    IF l = <<>> THEN <<>>
    ELSE insert_by_key(sort_covering(SubSeq(l, 1, Len(l) - 1), t), l[Len(l)], t)

edge_distance_seconds(ev, t) ==
    Min2(Abs(ev.begin - t), Abs(ev.end - t))

\* min(self._events, key=edge_distance_seconds): the first minimal element
RECURSIVE min_by_edge(_, _)
min_by_edge(l, t) ==
    IF Len(l) = 1 THEN l[1]
    ELSE LET best == min_by_edge(SubSeq(l, 1, Len(l) - 1), t)
         IN  IF edge_distance_seconds(l[Len(l)], t) < edge_distance_seconds(best, t)
             THEN l[Len(l)] ELSE best

within_tolerance_wide(d) == d <= 7200
within_tolerance_strict(d) == d < 3600
within_tolerance(d) == d <= 3600

match_course(evs, t, start) ==
    IF evs = <<>> THEN None
    ELSE LET covering == SelectSeq(evs, LAMBDA ev : covers(ev, t))
         IN  IF covering # <<>>
             THEN CourseMatch(sort_covering(covering, t)[1], t, start)
             ELSE LET closest == min_by_edge(evs, t)
                  IN  IF within_tolerance(edge_distance_seconds(closest, t))
                      THEN CourseMatch(closest, t, start)
                      ELSE None

\* generate_note not called, while another component is exercised
GenIdle ==
    /\ llm_retry_count = 0
    /\ attempt = 0
    /\ attempts = <<>>
    /\ calls = 0
    /\ fix_calls = 0
    /\ sleeps = 0
    /\ returned = None
    /\ gpc = "off"

NoMeta == [sequence |-> 0, transcript_filename |-> <<>>]

\* the pipeline at rest, while another component is exercised
PipeIdle ==
    /\ inbox = {}
    /\ moved = {}
    /\ files = <<>>
    /\ idx = 0
    /\ ppos = "off"
    /\ vault = <<>>
    /\ meta = NoMeta
    /\ read_set = {}
    /\ llm_sent = {}
    /\ written = {}
    /\ made_dirs = {}
    /\ fate = <<>>
    /\ skip_cause = <<>>
    /\ gen_failed = {}
    /\ started = <<>>
    /\ exit_code = 0
    /\ runs = 0
    /\ retry_due = {}

Absent == [exists |-> FALSE, data |-> <<>>]

\* the archive at rest, while another component is exercised
ArchiveIdle ==
    /\ notes_dir = <<>>
    /\ transcripts_dir = <<>>
    /\ course_name = <<>>
    /\ week_num = 0
    /\ seq = 0
    /\ md_content = <<>>
    /\ final_path = <<>>
    /\ tmp_path = <<>>
    /\ before = Absent
    /\ saved_seqs = {}
    /\ overwritten = FALSE
    /\ files_done = 0
    /\ interrupts = 0
    /\ apc = "off"

\* the note generator at rest, while another component is exercised
PostIdle ==
    /\ content = <<>>
    /\ once = <<>>
    /\ twice = <<>>
    /\ ppc = "idle"

InitMatch ==
    /\ PostIdle
    /\ ArchiveIdle
    /\ GenIdle
    /\ PipeIdle
    /\ events \in SortedEventLists
    /\ semester_start = 0
    /\ target \in TimePoints
    /\ result = None
    /\ mpc = "ready"

\* main() asks the calendar for the course of one transcript's timestamp
MatchCourse ==
    /\ mpc = "ready"
    /\ result' = match_course(events, target, semester_start)
    /\ mpc' = "matched"
    /\ UNCHANGED <<events, semester_start, target>>
    /\ UNCHANGED <<post_vars, archive_vars, gen_vars, pipe_vars>>

\* main() goes on to the next transcript, with another timestamp
NextTranscript ==
    /\ mpc = "matched"
    /\ \E t \in TimePoints : target' = t
    /\ result' = None
    /\ mpc' = "ready"
    /\ UNCHANGED <<events, semester_start>>
    /\ UNCHANGED <<post_vars, archive_vars, gen_vars, pipe_vars>>

NextMatch == MatchCourse \/ NextTranscript

SpecMatch == InitMatch /\ [][NextMatch]_vars

(***************************************************************************)
(* Week numbers: match_course over the days of a term                      *)
(***************************************************************************)
MaxDay == 8

\* timestamps of a term: midnight, 14:30 and the last second of the days
\* around the semester start
TermTimePoints ==
    { day * 86400 + s : day \in (0 - MaxDay)..MaxDay, s \in {0, 52200, 86399} }

\* one event that spans the whole term, and a lecture from 14:00 to 16:00
\* on the seventh day after day 0
TermEvent ==
    [name |-> <<"A">>, begin |-> (0 - MaxDay) * 86400, end |-> (MaxDay + 1) * 86400]

LectureEvent ==
    [name |-> <<"A">>, begin |-> 7 * 86400 + 50400, end |-> 7 * 86400 + 57600]

InitWeek ==
    /\ PostIdle
    /\ ArchiveIdle
    /\ GenIdle
    /\ PipeIdle
    /\ events \in { <<TermEvent>>, <<LectureEvent>> }
    /\ semester_start \in {0, 1}
    /\ target \in TermTimePoints
    /\ result = None
    /\ mpc = "ready"

\* main() goes on to the next transcript, recorded at some time of the term
NextTranscriptOfTerm ==
    /\ mpc = "matched"
    /\ \E t \in TermTimePoints : target' = t
    /\ result' = None
    /\ mpc' = "ready"
    /\ UNCHANGED <<events, semester_start>>
    /\ UNCHANGED <<post_vars, archive_vars, gen_vars, pipe_vars>>

NextWeek == MatchCourse \/ NextTranscriptOfTerm

SpecWeek == InitWeek /\ [][NextWeek]_vars

(***************************************************************************)
(* Note Generator: LLMHandler._post_process_note                           *)
(***************************************************************************)
IsDigit(c) == c \in {"0", "1", "2", "3", "4", "5", "6", "7", "8", "9"}

UpperCase == <<"A", "B", "C", "D", "E", "F", "G", "H", "I", "J", "K", "L", "M",
               "N", "O", "P", "Q", "R", "S", "T", "U", "V", "W", "X", "Y", "Z">>

LowerCase == <<"a", "b", "c", "d", "e", "f", "g", "h", "i", "j", "k", "l", "m",
               "n", "o", "p", "q", "r", "s", "t", "u", "v", "w", "x", "y", "z">>

\* the case folding of re.IGNORECASE
Lower(c) ==
    IF \E k \in 1..26 : UpperCase[k] = c
    THEN LowerCase[CHOOSE k \in 1..26 : UpperCase[k] = c]
    ELSE c

\* \s* : the first position at or after i that holds no whitespace
RECURSIVE skip_spaces(_, _)
skip_spaces(s, i) ==
    IF i <= Len(s) /\ IsSpace(s[i]) THEN skip_spaces(s, i + 1) ELSE i

\* \d* : the first position at or after i that holds no digit
RECURSIVE skip_digits(_, _)
skip_digits(s, i) ==
    IF i <= Len(s) /\ IsDigit(s[i]) THEN skip_digits(s, i + 1) ELSE i

\* the literal lit stands in s at position i
lit_at(s, i, lit) ==
    /\ i >= 1
    /\ i + Len(lit) - 1 <= Len(s)
    /\ \A k \in 1..Len(lit) : s[i + k - 1] = lit[k]

\* the same, under re.IGNORECASE
lit_at_nocase(s, i, lit) ==
    /\ i >= 1
    /\ i + Len(lit) - 1 <= Len(s)
    /\ \A k \in 1..Len(lit) : Lower(s[i + k - 1]) = Lower(lit[k])

\* content.replace("***", "---")
RECURSIVE replace_rules(_, _)
replace_rules(s, i) ==
    IF i > Len(s) THEN <<>>
    ELSE IF lit_at(s, i, <<"*", "*", "*">>)
         THEN <<"-", "-", "-">> \o replace_rules(s, i + 3)
         ELSE <<s[i]>> \o replace_rules(s, i + 1)

\* (.*?)lit : the first position at or after i where lit stands, with no
\* newline before it ("." matches no newline); 0 when there is none
RECURSIVE lazy_until(_, _, _)
lazy_until(s, i, lit) ==
    IF i > Len(s) THEN 0
    ELSE IF lit_at(s, i, lit) THEN i
    ELSE IF s[i] = "\n" THEN 0
    ELSE lazy_until(s, i + 1, lit)

\* \{c\d+::(.*?)\} at position i: <<start of the group, position of the
\* closing brace>>, or <<0, 0>> when it does not match there
single_brace_cloze(s, i) ==
    IF lit_at(s, i, <<"{", "c">>) /\ i + 2 <= Len(s) /\ IsDigit(s[i + 2])
    THEN LET j == skip_digits(s, i + 2)
         IN  IF lit_at(s, j, <<":", ":">>)
             THEN LET k == lazy_until(s, j + 2, <<"}">>)
                  IN  IF k > 0 THEN <<j + 2, k>> ELSE <<0, 0>>
             ELSE <<0, 0>>
    ELSE <<0, 0>>

\* re.sub(r"\{c\d+::(.*?)\}", r"{{c1::\1}}", s)
RECURSIVE fix_cloze(_, _)
fix_cloze(s, i) ==
    IF i > Len(s) THEN <<>>
    ELSE LET m == single_brace_cloze(s, i)
         IN  IF m[2] > 0
             THEN <<"{", "{", "c", "1", ":", ":">> \o SubSeq(s, m[1], m[2] - 1)
                    \o <<"}", "}">> \o fix_cloze(s, m[2] + 1)
             ELSE <<s[i]>> \o fix_cloze(s, i + 1)

\* re.sub(r"\{\{c1::(.*?)\}\}", r"\1", line)
RECURSIVE strip_cloze(_, _)
strip_cloze(line, i) ==
    IF i > Len(line) THEN <<>>
    ELSE LET k == IF lit_at(line, i, <<"{", "{", "c", "1", ":", ":">>)
                  THEN lazy_until(line, i + 6, <<"}", "}">>) ELSE 0
         IN  IF k > 0
             THEN SubSeq(line, i + 6, k - 1) \o strip_cloze(line, k + 2)
             ELSE <<line[i]>> \o strip_cloze(line, i + 1)

\* str.splitlines(), for texts whose only line boundary is "\n"
RECURSIVE splitlines_from(_, _, _)
splitlines_from(s, i, cur) ==
    IF i > Len(s) THEN (IF cur = <<>> THEN <<>> ELSE <<cur>>)
    ELSE IF s[i] = "\n" THEN <<cur>> \o splitlines_from(s, i + 1, <<>>)
    ELSE splitlines_from(s, i + 1, Append(cur, s[i]))

splitlines(s) == splitlines_from(s, 1, <<>>)

\* "\n".join(lines)
RECURSIVE join(_)
join(lines) ==
    IF lines = <<>> THEN <<>>
    ELSE IF Len(lines) = 1 THEN lines[1]
    ELSE lines[1] \o <<"\n">> \o join(Tail(lines))

\* Anki\s*<ka><pian>\s*$ from position j
anki_tail(line, j) ==
    /\ lit_at(line, j, <<"A", "n", "k", "i">>)
    /\ LET k == skip_spaces(line, j + 4)
       IN  /\ lit_at(line, k, <<"<ka>", "<pian>">>)
           /\ skip_spaces(line, k + 2) = Len(line) + 1

is_anki_heading_plain(line) ==
    LET i == skip_spaces(line, 1)
    IN  lit_at(line, i, <<"#", "#">>) /\ anki_tail(line, skip_spaces(line, i + 2))
\* ^\s*##\s*<brain>\s*Anki\s*<ka><pian>\s*$ or ^\s*##\s*Anki\s*<ka><pian>\s*$
is_anki_heading(line) ==
    LET i == skip_spaces(line, 1)
    IN  /\ lit_at(line, i, <<"#", "#">>)
        /\ LET j == skip_spaces(line, i + 2)
           IN  \/ /\ lit_at(line, j, <<"<brain>">>)
                  /\ anki_tail(line, skip_spaces(line, j + 1))
               \/ anki_tail(line, j)

\* ^\s*##\s+
is_h2(line) ==
    LET i == skip_spaces(line, 1)
    IN  /\ lit_at(line, i, <<"#", "#">>)
        /\ i + 2 <= Len(line)
        /\ IsSpace(line[i + 2])

\* the first loop: cloze markers are stripped from the lines outside the
\* flashcard section
RECURSIVE strip_pass(_, _, _)
strip_pass(lines, k, in_anki) ==
    IF k > Len(lines) THEN <<>>
    ELSE LET line == lines[k]
         IN  IF is_anki_heading(line)
             THEN <<line>> \o strip_pass(lines, k + 1, TRUE)
             ELSE IF in_anki
             THEN <<line>> \o strip_pass(lines, k + 1, ~is_h2(line))
             ELSE <<strip_cloze(line, 1)>> \o strip_pass(lines, k + 1, FALSE)

SummaryEnglish ==
    <<"O", "n", "e", "-", "S", "e", "n", "t", "e", "n", "c", "e", " ",
      "S", "u", "m", "m", "a", "r", "y">>

SummaryChinese == <<"<yi>", "<ju>", "<hua>", "<zong>", "<jie>">>

\* the last newline of s[lo..hi], or 0
RECURSIVE last_newline(_, _, _)
last_newline(s, lo, hi) ==
    IF hi < lo THEN 0
    ELSE IF s[hi] = "\n" THEN hi
    ELSE last_newline(s, lo, hi - 1)

\* (?mi)^\s*###\s*\d*\.?\s*(One-Sentence Summary|<sum>)\s*\n at the line
\* start p: the position of the newline that ends the match, or 0
summary_heading_end(s, p) ==
    LET i == skip_spaces(s, p)
    IN  IF ~lit_at(s, i, <<"#", "#", "#">>) THEN 0
        ELSE LET j  == skip_digits(s, skip_spaces(s, i + 3))
                 j2 == IF j <= Len(s) /\ s[j] = "." THEN j + 1 ELSE j
                 j3 == skip_spaces(s, j2)
                 e  == IF lit_at_nocase(s, j3, SummaryEnglish)
                       THEN j3 + Len(SummaryEnglish)
                       ELSE IF lit_at(s, j3, SummaryChinese)
                       THEN j3 + Len(SummaryChinese)
                       ELSE 0
             IN  IF e = 0 THEN 0
                 ELSE last_newline(s, e, skip_spaces(s, e) - 1)

\* re.sub of the summary heading pattern by ""
RECURSIVE remove_summary_heading(_, _)
remove_summary_heading(s, i) ==
    IF i > Len(s) THEN <<>>
    ELSE LET e == IF i = 1 \/ s[i - 1] = "\n"
                  THEN summary_heading_end(s, i) ELSE 0
         IN  IF e > 0 THEN remove_summary_heading(s, e + 1)
             ELSE <<s[i]>> \o remove_summary_heading(s, i + 1)

\* re.sub(r"^\s*-\s+", "", line)
strip_bullet(line) ==
    LET i == skip_spaces(line, 1)
    IN  IF lit_at(line, i, <<"-">>) /\ i + 1 <= Len(line) /\ IsSpace(line[i + 1])
        THEN SubSeq(line, skip_spaces(line, i + 1), Len(line))
        ELSE line

\* the second loop: inside the flashcard section the bullets go and a blank
\* line follows the heading
RECURSIVE bullet_pass(_, _, _, _)
bullet_pass(lines, k, in_anki, inserted) ==
    IF k > Len(lines) THEN <<>>
    ELSE LET line == lines[k]
         IN  IF is_anki_heading(line)
             THEN <<line>> \o bullet_pass(lines, k + 1, TRUE, FALSE)
             ELSE IF in_anki
             THEN LET blank == IF ~inserted /\ strip(line) # <<>>
                               THEN << <<>> >> ELSE <<>>
                  IN  IF is_h2(line)
                      THEN blank \o <<line>> \o bullet_pass(lines, k + 1, FALSE, TRUE)
                      ELSE blank \o <<strip_bullet(line)>>
                             \o bullet_pass(lines, k + 1, TRUE, TRUE)
             ELSE <<line>> \o bullet_pass(lines, k + 1, FALSE, inserted)

post_process_note(text) ==
    LET s1 == fix_cloze(replace_rules(text, 1), 1)
        s2 == join(strip_pass(splitlines(s1), 1, FALSE))
        s3 == remove_summary_heading(s2, 1)
    IN  join(bullet_pass(splitlines(s3), 1, FALSE, FALSE))

MaxLines == 3

HeadingPlain == <<"#", "#", " ", "A", "n", "k", "i", " ", "<ka>", "<pian>">>

HeadingEmoji == <<"#", "#", "<brain>", "A", "n", "k", "i", "<ka>", "<pian>">>

HeadingLowerCase == <<"#", "#", " ", "a", "n", "k", "i", " ", "<ka>", "<pian>">>

HeadingEnglish ==
    <<"#", "#", " ", "A", "n", "k", "i", " ", "C", "a", "r", "d", "s">>

\* the lines a model response is made of
ResponseLines ==
    { HeadingPlain, HeadingEmoji, HeadingLowerCase, HeadingEnglish,
      <<"#", "#", " ", "Z", " ", "{", "c", "1", ":", ":", "x", "}">>,
      <<"-", " ", "{", "c", "7", ":", ":", "x", "}">>,
      <<"{", "{", "c", "2", ":", ":", "y", "}", "}">>,
      <<"#", "#", "#", " ", "1", ".", " ">> \o SummaryChinese,
      <<"*", "*", "*">>,
      <<"x">>,
      <<>> }

Responses ==
    UNION { { join(l) : l \in [1..n -> ResponseLines] } : n \in 0..MaxLines }

\* the match side at rest, while another component is exercised
MatchIdle ==
    /\ events = <<>>
    /\ semester_start = 0
    /\ target = 0
    /\ result = None
    /\ mpc = "idle"

InitPost ==
    /\ MatchIdle
    /\ ArchiveIdle
    /\ GenIdle
    /\ PipeIdle
    /\ content \in Responses
    /\ once = <<>>
    /\ twice = <<>>
    /\ ppc = "raw"

\* generate_note post-processes the model's response
PostProcess ==
    /\ ppc = "raw"
    /\ once' = post_process_note(content)
    /\ ppc' = "once"
    /\ UNCHANGED <<content, twice>>
    /\ UNCHANGED <<match_vars, archive_vars, gen_vars, pipe_vars>>

\* the processed note is post-processed again
PostProcessAgain ==
    /\ ppc = "once"
    /\ twice' = post_process_note(once)
    /\ ppc' = "twice"
    /\ UNCHANGED <<content, once>>
    /\ UNCHANGED <<match_vars, archive_vars, gen_vars, pipe_vars>>

NextPost == PostProcess \/ PostProcessAgain

SpecPost == InitPost /\ [][NextPost]_vars

(***************************************************************************)
(* Archive Store: ObsidianManager                                          *)
(***************************************************************************)
Digits == <<"0", "1", "2", "3", "4", "5", "6", "7", "8", "9">>

\* int() of one digit character
DigitValue(c) == (CHOOSE k \in 1..10 : Digits[k] = c) - 1

RECURSIVE digits_of(_)
digits_of(n) ==
    IF n < 10 THEN <<Digits[n + 1]>>
    ELSE digits_of(n \div 10) \o <<Digits[(n % 10) + 1]>>

\* f"{n:0{width}d}" for n >= 0
zero_pad(n, width) ==
    LET d == digits_of(n)
    IN  [k \in 1..Max2(0, width - Len(d)) |-> "0"] \o d

RECURSIVE lstrip_chars(_, _)
lstrip_chars(s, cs) ==
    IF s # <<>> /\ Head(s) \in cs THEN lstrip_chars(Tail(s), cs) ELSE s

RECURSIVE rstrip_chars(_, _)
rstrip_chars(s, cs) ==
    IF s # <<>> /\ s[Len(s)] \in cs
    THEN rstrip_chars(SubSeq(s, 1, Len(s) - 1), cs) ELSE s

\* str.strip(chars)
strip_chars(s, cs) == rstrip_chars(lstrip_chars(s, cs), cs)

UnsafeChars == {"<backslash>", "/", ":", "*", "?", "<dquote>", "<", ">", "|"}

\* re.sub(r"\s+", " ", name)
RECURSIVE collapse_spaces(_, _)
collapse_spaces(s, i) ==
    IF i > Len(s) THEN <<>>
    ELSE IF IsSpace(s[i]) THEN <<" ">> \o collapse_spaces(s, skip_spaces(s, i))
    ELSE <<s[i]>> \o collapse_spaces(s, i + 1)

sanitize_filename(name) ==
    LET spaced == [k \in 1..Len(name) |->
                      IF name[k] \in UnsafeChars THEN " " ELSE name[k]]
        packed == collapse_spaces(strip(spaced), 1)
    IN  SubSeq(packed, 1, Min2(120, Len(packed)))

\* str.find: the first position at or after i where lit stands, or 0
RECURSIVE find_lit(_, _, _)
find_lit(s, i, lit) ==
    IF i + Len(lit) - 1 > Len(s) THEN 0
    ELSE IF lit_at(s, i, lit) THEN i
    ELSE find_lit(s, i + 1, lit)

Fence == <<"<tick>", "<tick>", "<tick>">>

\* the fenced yaml block of a note is rewritten as front matter
unfence_yaml(md) ==
    LET p == find_lit(md, 1, Fence \o <<"y", "a", "m", "l">>)
    IN  IF p = 0 THEN md
        ELSE LET part == SubSeq(md, p + 7, Len(md))
                 q == find_lit(part, 1, Fence)
             IN  IF q = 0 THEN md
                 ELSE <<"-", "-", "-", "\n">> \o strip(SubSeq(part, 1, q - 1))
                        \o <<"\n", "-", "-", "-", "\n">>
                        \o SubSeq(part, q + 3, Len(part))

FrontMatterMark == <<"-", "-", "-">>

\* the topic one front matter line gives, or <<>>
yaml_line_topic(raw) ==
    LET t == strip(raw)
        c == find_lit(t, 1, <<":">>)
    IN  IF t = <<>> \/ Head(t) = "#" \/ c = 0 THEN <<>>
        ELSE LET key == strip(SubSeq(t, 1, c - 1))
                 val == strip(SubSeq(t, c + 1, Len(t)))
             IN  IF [k \in 1..Len(key) |-> Lower(key[k])] = <<"t", "o", "p", "i", "c">>
                 THEN strip_chars(strip_chars(val, {"<dquote>"}), {"<squote>"})
                 ELSE <<>>

\* the first topic of the front matter lines k.., up to the closing mark
RECURSIVE yaml_topic(_, _)
yaml_topic(lines, k) ==
    IF k > Len(lines) \/ strip(lines[k]) = FrontMatterMark THEN <<>>
    ELSE LET t == yaml_line_topic(lines[k])
         IN  IF t # <<>> THEN t ELSE yaml_topic(lines, k + 1)

\* the title of the first level-1 heading that has one, or <<>>
RECURSIVE h1_topic(_, _)
h1_topic(lines, k) ==
    IF k > Len(lines) THEN <<>>
    ELSE LET t == strip(lines[k])
             title == IF lit_at(t, 1, <<"#", " ">>)
                      THEN strip(lstrip_chars(t, {"#", " "})) ELSE <<>>
         IN  IF title # <<>> THEN title ELSE h1_topic(lines, k + 1)

parse_topic(md) ==
    LET lines == splitlines(strip(unfence_yaml(md)))
        from_yaml == IF lines # <<>> /\ strip(lines[1]) = FrontMatterMark
                     THEN yaml_topic(lines, 2) ELSE <<>>
        from_h1 == h1_topic(lines, 1)
    IN  IF from_yaml # <<>> THEN sanitize_filename(from_yaml)
        ELSE IF from_h1 # <<>> THEN sanitize_filename(from_h1)
        ELSE <<"U", "n", "t", "i", "t", "l", "e", "d">>

ends_with(name, lit) == lit_at(name, Len(name) - Len(lit) + 1, lit)

\* Path.glob("*.md"): the names that end in ".md"; on POSIX the match is
\* case-sensitive
glob_md(dir) == { name \in DOMAIN dir : ends_with(name, <<".", "m", "d">>) }

\* re.compile(r"^(\d{3})-.*\.md$", re.IGNORECASE).match(name)
pattern_match(name) ==
    /\ Len(name) >= 7
    /\ \A k \in 1..3 : IsDigit(name[k])
    /\ name[4] = "-"
    /\ lit_at_nocase(name, Len(name) - 2, <<".", "m", "d">>)
    /\ \A k \in 5..(Len(name) - 3) : name[k] # "\n"

\* int(m.group(1))
group_int(name) ==
    100 * DigitValue(name[1]) + 10 * DigitValue(name[2]) + DigitValue(name[3])

TranscriptWord == <<"T", "r", "a", "n", "s", "c", "r", "i", "p", "t">>

\* a file the scan counts: it matches the pattern and is no transcript copy
counted(name) ==
    pattern_match(name) /\ find_lit(name, 1, TranscriptWord) = 0

\* the loop over the globbed paths
RECURSIVE scan_max(_, _)
scan_max(names, max_seq) ==
    IF names = {} THEN max_seq
    ELSE LET name == CHOOSE n \in names : TRUE
         IN  scan_max(names \ {name},
                      IF counted(name) THEN Max2(max_seq, group_int(name))
                      ELSE max_seq)

get_next_sequence_num(dir) == scan_max(glob_md(dir), 0) + 1

week_part(week) == <<"W">> \o zero_pad(week, 2)

transcript_name(sequence_num, week, course) ==
    zero_pad(sequence_num, 3) \o <<"-">> \o week_part(week) \o <<"-">>
      \o sanitize_filename(course) \o <<"-">> \o TranscriptWord \o <<".", "m", "d">>

note_name(sequence_num, week, md) ==
    zero_pad(sequence_num, 3) \o <<"-">>
      \o (IF week > 0 THEN week_part(week) \o <<"-">> ELSE <<>>)
      \o parse_topic(md) \o <<".", "m", "d">>

MaxFiles == 2
MaxInterrupts == 1

\* the names tempfile can give: "tmp" and a random part
TmpNames == { <<"t", "m", "p", Digits[k]>> : k \in 1..(MaxInterrupts + 1) }

NoteLung ==
    <<"-", "-", "-", "\n", "t", "o", "p", "i", "c", ":", " ", "L", "u", "n", "g",
      "\n", "-", "-", "-", "\n", "x">>

NoteReviewX == <<"#", " ">> \o TranscriptWord \o <<" ", "R", "\n", "x">>

NoteReviewY == <<"#", " ">> \o TranscriptWord \o <<" ", "R", "\n", "y">>

NotePlain == <<"x", " ", "y">>

\* the note bodies generate_note can return
NoteBodies == { NoteLung, NoteReviewX, NoteReviewY, NotePlain }

OldNote == <<"o", "l", "d">>

\* files a course directory can hold when a run begins: an earlier note, a
\* transcript-named file, a note with an upper-case extension, a four-digit one
EarlierFiles ==
    { <<"0", "0", "1", "-", "W", "0", "1", "-", "L", "u", "n", "g", ".", "m", "d">>,
      <<"0", "0", "2", "-", "W", "0", "1", "-", "X", "-">> \o TranscriptWord
          \o <<".", "m", "d">>,
      <<"0", "0", "5", "-", "W", "0", "1", "-", "L", "u", "n", "g", ".", "M", "D">>,
      <<"1", "0", "0", "0", "-", "W", "0", "1", "-", "L", ".", "m", "d">> }

EarlierTranscripts ==
    { <<"0", "0", "9", "-", "W", "0", "1", "-", "X", "-">> \o TranscriptWord
          \o <<".", "m", "d">> }

\* a directory: the function from the names of its files to their contents
Directory(names, data) == [n \in names |-> data]

write_file(dir, name, data) == (name :> data) @@ dir

remove_file(dir, name) == [n \in (DOMAIN dir) \ {name} |-> dir[n]]

InitArchive ==
    /\ MatchIdle
    /\ PostIdle
    /\ GenIdle
    /\ PipeIdle
    /\ \E names \in SUBSET EarlierFiles :
          /\ Cardinality(names) <= 2
          /\ notes_dir = Directory(names, OldNote)
    /\ transcripts_dir = Directory(EarlierTranscripts, OldNote)
    /\ course_name = <<"X">>
    /\ week_num = 0
    /\ seq = 0
    /\ md_content = <<>>
    /\ final_path = <<>>
    /\ tmp_path = <<>>
    /\ before = Absent
    /\ saved_seqs = {}
    /\ overwritten = FALSE
    /\ files_done = 0
    /\ interrupts = 0
    /\ apc = "idle"

\* main, step c: the manager of the course is built and the sequence number
\* is taken from the directory
GetNextSequenceNum ==
    /\ apc = "idle"
    /\ files_done < MaxFiles
    /\ \E w \in {1} : week_num' = w
    /\ seq' = get_next_sequence_num(notes_dir)
    /\ apc' = "allocated"
    /\ UNCHANGED <<notes_dir, transcripts_dir, course_name, md_content,
                   final_path, tmp_path, before, saved_seqs, overwritten,
                   files_done, interrupts>>
    /\ UNCHANGED <<match_vars, post_vars, gen_vars, pipe_vars>>

\* main, step d: the note generator returns a note body
GenerateNote ==
    /\ apc = "allocated"
    /\ \E md \in NoteBodies : md_content' = md
    /\ apc' = "generated"
    /\ UNCHANGED <<notes_dir, transcripts_dir, course_name, week_num, seq,
                   final_path, tmp_path, before, saved_seqs, overwritten,
                   files_done, interrupts>>
    /\ UNCHANGED <<match_vars, post_vars, gen_vars, pipe_vars>>

\* save_transcript
SaveTranscript ==
    /\ apc = "generated"
    /\ transcripts_dir' =
          write_file(transcripts_dir, transcript_name(seq, week_num, course_name),
                     <<"t", "e", "x", "t">>)
    /\ apc' = "transcript_saved"
    /\ UNCHANGED <<notes_dir, course_name, week_num, seq, md_content, final_path,
                   tmp_path, before, saved_seqs, overwritten, files_done,
                   interrupts>>
    /\ UNCHANGED <<match_vars, post_vars, gen_vars, pipe_vars>>

\* tempfile draws a name no file of the directory has; the names differ in
\* nothing else, so the first free one stands for any
unused_tmp_name(dir) ==
    <<"t", "m", "p",
      Digits[CHOOSE k \in 1..(MaxInterrupts + 1) :
                /\ <<"t", "m", "p", Digits[k]>> \notin DOMAIN dir
                /\ \A j \in 1..(k - 1) : <<"t", "m", "p", Digits[j]>> \in DOMAIN dir]>>

temp_path_in_place(final, tmp) == final
\* the path save_note writes the content to before the rename
temp_path(final, tmp) == tmp

\* save_note: the topic is parsed, the temporary file is created empty
SaveNoteOpenTemp ==
    /\ apc = "transcript_saved"
    /\ LET final == note_name(seq, week_num, md_content)
       IN  /\ final_path' = final
           /\ before' = IF final \in DOMAIN notes_dir
                        THEN [exists |-> TRUE, data |-> notes_dir[final]]
                        ELSE Absent
           /\ LET t == unused_tmp_name(notes_dir)
              IN  /\ tmp_path' = temp_path(final, t)
                  /\ notes_dir' = write_file(notes_dir, temp_path(final, t), <<>>)
    /\ apc' = "tmp_open"
    /\ UNCHANGED <<transcripts_dir, course_name, week_num, seq, md_content,
                   saved_seqs, overwritten, files_done, interrupts>>
    /\ UNCHANGED <<match_vars, post_vars, gen_vars, pipe_vars>>

\* tmp.write: a part of the content reaches the file before it is closed
SaveNoteFlush ==
    /\ apc = "tmp_open"
    /\ notes_dir[tmp_path] = <<>>
    /\ notes_dir' = write_file(notes_dir, tmp_path,
                               SubSeq(md_content, 1, Len(md_content) \div 2))
    /\ UNCHANGED <<transcripts_dir, course_name, week_num, seq, md_content,
                   final_path, tmp_path, before, saved_seqs, overwritten,
                   files_done, interrupts, apc>>
    /\ UNCHANGED <<match_vars, post_vars, gen_vars, pipe_vars>>

\* the with block ends: the file is closed with all of the content in it
SaveNoteClose ==
    /\ apc = "tmp_open"
    /\ notes_dir' = write_file(notes_dir, tmp_path, md_content)
    /\ apc' = "tmp_closed"
    /\ UNCHANGED <<transcripts_dir, course_name, week_num, seq, md_content,
                   final_path, tmp_path, before, saved_seqs, overwritten,
                   files_done, interrupts>>
    /\ UNCHANGED <<match_vars, post_vars, gen_vars, pipe_vars>>

\* os.replace(tmp_path, final_path)
SaveNoteReplace ==
    /\ apc = "tmp_closed"
    /\ notes_dir' = IF tmp_path = final_path THEN notes_dir
                    ELSE write_file(remove_file(notes_dir, tmp_path), final_path,
                                    notes_dir[tmp_path])
    /\ overwritten' = (overwritten \/ before.exists)
    /\ saved_seqs' = saved_seqs \cup {seq}
    /\ apc' = "note_saved"
    /\ UNCHANGED <<transcripts_dir, course_name, week_num, seq, md_content,
                   final_path, tmp_path, before, files_done, interrupts>>
    /\ UNCHANGED <<match_vars, post_vars, gen_vars, pipe_vars>>

\* main, step f and the loop: the source is moved away and the locals of the
\* iteration are dropped
NextFile ==
    /\ apc = "note_saved"
    /\ files_done' = files_done + 1
    /\ week_num' = 0
    /\ seq' = 0
    /\ md_content' = <<>>
    /\ final_path' = <<>>
    /\ tmp_path' = <<>>
    /\ before' = Absent
    /\ apc' = "idle"
    /\ UNCHANGED <<notes_dir, transcripts_dir, course_name, saved_seqs,
                   overwritten, interrupts>>
    /\ UNCHANGED <<match_vars, post_vars, gen_vars, pipe_vars>>

\* the process is killed, or the write fails, inside save_note before the rename
Interrupt ==
    /\ apc \in {"tmp_open", "tmp_closed"}
    /\ interrupts < MaxInterrupts
    /\ interrupts' = interrupts + 1
    /\ apc' = "interrupted"
    /\ UNCHANGED <<notes_dir, transcripts_dir, course_name, week_num, seq,
                   md_content, final_path, tmp_path, before, saved_seqs,
                   overwritten, files_done>>
    /\ UNCHANGED <<match_vars, post_vars, gen_vars, pipe_vars>>

\* the next run of the program: nothing but the directories is kept
Restart ==
    /\ apc = "interrupted"
    /\ week_num' = 0
    /\ seq' = 0
    /\ md_content' = <<>>
    /\ final_path' = <<>>
    /\ tmp_path' = <<>>
    /\ before' = Absent
    /\ apc' = "idle"
    /\ UNCHANGED <<notes_dir, transcripts_dir, course_name, saved_seqs,
                   overwritten, files_done, interrupts>>
    /\ UNCHANGED <<match_vars, post_vars, gen_vars, pipe_vars>>

NextArchive ==
    \/ GetNextSequenceNum
    \/ GenerateNote
    \/ SaveTranscript
    \/ SaveNoteOpenTemp
    \/ SaveNoteFlush
    \/ SaveNoteClose
    \/ SaveNoteReplace
    \/ NextFile
    \/ Interrupt
    \/ Restart

SpecArchive == InitArchive /\ [][NextArchive]_vars

(***************************************************************************)
(* Note Generator: LLMHandler.generate_note                                *)
(***************************************************************************)
MaxRetries == 3

\* _extract_anki_bounds: the first flashcard heading of the lines and the end
\* of its section, as line numbers from 1 (found is FALSE for None)
RECURSIVE first_anki_heading(_, _)
first_anki_heading(lines, k) ==
    IF k > Len(lines) THEN 0
    ELSE IF is_anki_heading(lines[k]) THEN k
    ELSE first_anki_heading(lines, k + 1)

RECURSIVE first_h2_from(_, _)
first_h2_from(lines, j) ==
    IF j > Len(lines) THEN Len(lines) + 1
    ELSE IF is_h2(lines[j]) THEN j
    ELSE first_h2_from(lines, j + 1)

extract_anki_bounds(text) ==
    LET lines == splitlines(text)
        h     == first_anki_heading(lines, 1)
    IN  IF h = 0 THEN [found |-> FALSE, header |-> 0, start |-> 0, end |-> 0]
        ELSE [found |-> TRUE, header |-> h, start |-> h + 1,
              end |-> first_h2_from(lines, h + 1)]

\* re.search(r"\{\{c\d+::.*?\}\}", s)
has_double_cloze(s) ==
    \E i \in 1..Len(s) :
        /\ lit_at(s, i, <<"{", "{", "c">>)
        /\ i + 3 <= Len(s)
        /\ IsDigit(s[i + 3])
        /\ LET j == skip_digits(s, i + 3)
           IN  /\ lit_at(s, j, <<":", ":">>)
               /\ \E k \in (j + 2)..Len(s) :
                     /\ lit_at(s, k, <<"}", "}">>)
                     /\ \A m \in (j + 2)..(k - 1) : s[m] # "\n"

\* _needs_cloze: some line of the section has text and none has a cloze
needs_cloze(anki_text) ==
    LET lines == splitlines(anki_text)
    IN  /\ \E k \in DOMAIN lines : strip(lines[k]) # <<>>
        /\ \A k \in DOMAIN lines :
              strip(lines[k]) # <<>> => ~has_double_cloze(strip(lines[k]))

\* what the model can answer to the second-pass request
FixRaises == [raised |-> TRUE, text |-> <<>>]

FixReplies ==
    { FixRaises,
      [raised |-> FALSE, text |-> <<>>],
      [raised |-> FALSE, text |-> <<"z">>],
      [raised |-> FALSE, text |-> <<"{", "{", "c", "2", ":", ":", "z", "}", "}", "\n">>] }

\* _second_pass_fix_anki_via_llm, given the model's answer: the stripped
\* answer when it holds a cloze, else <<>> (for None)
second_pass_fix(fix) ==
    IF fix.raised THEN <<>>
    ELSE LET fixed == strip(fix.text)
         IN  IF fixed # <<>> /\ has_double_cloze(fixed) THEN fixed ELSE <<>>

\* the body of the flashcard section that _maybe_fix_anki_cloze_via_llm tests
anki_body(note_md) ==
    LET b     == extract_anki_bounds(note_md)
        lines == splitlines(note_md)
    IN  strip_chars(join(SubSeq(lines, b.start, b.end - 1)), {"\n"})

\* whether _maybe_fix_anki_cloze_via_llm sends the second-pass request
fix_wanted(note_md) ==
    extract_anki_bounds(note_md).found /\ needs_cloze(anki_body(note_md))

\* _maybe_fix_anki_cloze_via_llm, given the model's answer to the request
maybe_fix_anki_cloze(note_md, fix) ==
    IF ~fix_wanted(note_md) THEN note_md
    ELSE LET b     == extract_anki_bounds(note_md)
             lines == splitlines(note_md)
             fixed == second_pass_fix(fix)
         IN  IF fixed = <<>> THEN note_md
             ELSE join(SubSeq(lines, 1, b.header)
                       \o (IF b.start > Len(lines) \/ strip(lines[b.start]) # <<>>
                           THEN << <<>> >> ELSE <<>>)
                       \o splitlines(fixed)
                       \o SubSeq(lines, b.end, Len(lines)))

\* max(1, int(config.llm_retry_count))
retries_of(count) == Max2(1, count)

sleep_due_always(n, retries) == TRUE
\* if attempt < retries: time.sleep(delay)
sleep_due(n, retries) == n < retries

\* what the model can answer to the note request
ModelReplies ==
    { <<>>,
      <<" ", "\n">>,
      <<"{", "c", "1", ":", ":", "}">>,
      <<" ", "x">>,
      HeadingPlain \o <<"\n", "-", " ", "y">>,
      HeadingPlain \o <<"\n", "{", "c", "3", ":", ":", "y", "}">> }

\* the content of one attempt after strip, _post_process_note and the
\* second pass (lines 240-244)
attempt_content(reply, fix) ==
    LET stripped == strip(reply)
    IN  IF stripped = <<>> THEN <<>>
        ELSE maybe_fix_anki_cloze(post_process_note(stripped), fix)

\* whether the attempt sends the second-pass request
attempt_fix_wanted(reply) ==
    strip(reply) # <<>> /\ fix_wanted(post_process_note(strip(reply)))

NoFix == [raised |-> FALSE, text |-> <<>>]

InitGenerate ==
    /\ MatchIdle
    /\ PostIdle
    /\ ArchiveIdle
    /\ PipeIdle
    /\ llm_retry_count \in 0..MaxRetries
    /\ attempt = 1
    /\ attempts = <<>>
    /\ calls = 0
    /\ fix_calls = 0
    /\ sleeps = 0
    /\ returned = None
    /\ gpc = "loop"

\* one pass of the loop in which chat.completions.create raises
AttemptRaises ==
    /\ gpc = "loop"
    /\ attempt <= retries_of(llm_retry_count)
    /\ calls' = calls + 1
    /\ attempts' = Append(attempts, [raised |-> TRUE, reply |-> <<>>,
                                     fix_sent |-> FALSE, fix |-> NoFix])
    /\ sleeps' = IF sleep_due(attempt, retries_of(llm_retry_count))
                 THEN sleeps + 1 ELSE sleeps
    /\ attempt' = attempt + 1
    /\ UNCHANGED <<llm_retry_count, fix_calls, returned, gpc>>
    /\ UNCHANGED <<match_vars, post_vars, archive_vars, pipe_vars>>

\* one pass of the loop in which the model answers
AttemptReplies ==
    /\ gpc = "loop"
    /\ attempt <= retries_of(llm_retry_count)
    /\ \E reply \in ModelReplies :
       \E fix \in (IF attempt_fix_wanted(reply) THEN FixReplies ELSE {NoFix}) :
          LET text == attempt_content(reply, fix)
          IN  /\ calls' = calls + 1
              /\ fix_calls' = IF attempt_fix_wanted(reply)
                              THEN fix_calls + 1 ELSE fix_calls
              /\ attempts' = Append(attempts,
                                 [raised |-> FALSE, reply |-> reply,
                                  fix_sent |-> attempt_fix_wanted(reply),
                                  fix |-> fix])
              /\ IF text # <<>>
                 THEN /\ returned' = [is_none |-> FALSE, text |-> text]
                      /\ gpc' = "returned"
                      /\ UNCHANGED <<sleeps, attempt>>
                 ELSE /\ sleeps' = IF sleep_due(attempt, retries_of(llm_retry_count))
                                   THEN sleeps + 1 ELSE sleeps
                      /\ attempt' = attempt + 1
                      /\ UNCHANGED <<returned, gpc>>
    /\ UNCHANGED llm_retry_count
    /\ UNCHANGED <<match_vars, post_vars, archive_vars, pipe_vars>>

\* the loop is over: return None
ReturnNone ==
    /\ gpc = "loop"
    /\ attempt > retries_of(llm_retry_count)
    /\ returned' = None
    /\ gpc' = "returned"
    /\ UNCHANGED <<llm_retry_count, attempt, attempts, calls, fix_calls, sleeps>>
    /\ UNCHANGED <<match_vars, post_vars, archive_vars, pipe_vars>>

NextGenerate == AttemptRaises \/ AttemptReplies \/ ReturnNone

SpecGenerate == InitGenerate /\ [][NextGenerate]_vars

(***************************************************************************)
(* The pipeline: main()                                                    *)
(***************************************************************************)
MaxRuns == 2

\* the names of the *.txt files the input directory can hold
FileNames == { <<"1">>, <<"1", "0">>, <<"2">> }

\* a < b, as Python orders the names
RECURSIVE name_less(_, _)
name_less(a, b) ==
    IF a = <<>> THEN b # <<>>
    ELSE IF b = <<>> THEN FALSE
    ELSE IF Head(a) = Head(b) THEN name_less(Tail(a), Tail(b))
    ELSE DigitValue(Head(a)) < DigitValue(Head(b))

RECURSIVE sorted_files_reversed(_)
sorted_files_reversed(names) ==
    IF names = {} THEN <<>>
    ELSE LET m == CHOOSE x \in names : \A y \in names \ {x} : name_less(y, x)
         IN  <<m>> \o sorted_files_reversed(names \ {m})

\* sorted([p for p in transcript_dir.glob("*.txt") if p.is_file()])
RECURSIVE sorted_files(_)
sorted_files(names) ==
    IF names = {} THEN <<>>
    ELSE LET m == CHOOSE x \in names : \A y \in names \ {x} : name_less(x, y)
         IN  <<m>> \o sorted_files(names \ {m})

\* the calendar of the runs: a lecture in the first hour of day 0, whose name
\* holds a colon
TermCalendar ==
    << [name |-> <<" ", "A", ":", "B">>, begin |-> 0, end |-> 3600] >>

\* the timestamps of the recordings: inside the lecture, and a week later,
\* far from it
RecordingTimes == { 1800, 7 * 86400 + 1800 }

\* what input() can give: nothing (or an exception), blanks, a course name
ManualInputs == { <<>>, <<" ">>, <<"A", " ", " ", "B">> }

\* the notes generate_note can return
GeneratedNotes == { NoteLung, NotePlain }

DefaultCourse == <<"C", "o", "u", "r", "s", "e">>

\* for d in [base_dir, transcripts_dir]: d.mkdir(parents=True, exist_ok=True)
mkdirs(v, base) ==
    IF base \in DOMAIN v THEN v
    ELSE (base :> [notes |-> {}, transcripts |-> {}]) @@ v

\* f"{seq:03d}-W{week:02d}-{manager.course_name}-Transcript.md" of main
main_transcript_filename(sequence_num, week, course) ==
    zero_pad(sequence_num, 3) \o <<"-", "W">> \o zero_pad(week, 2) \o <<"-">>
      \o course \o <<"-">> \o TranscriptWord \o <<".", "m", "d">>

manual_name_given_always(user_input) == TRUE
\* if not user_input: ... continue
manual_name_given(user_input) == user_input # <<>>

generation_failed_never(note_md) == FALSE
\* if not note_md: sys.exit(2)
generation_failed(note_md) == note_md = <<>>

\* the loop goes on to the next file, or main ends
after_file(i, fs) == IF i + 1 > Len(fs) THEN "finished" ELSE "timestamp"

CurrentFile == files[idx]

\* continue, or the end of the loop body: the locals of the pass are dropped
Continue ==
    /\ idx' = idx + 1
    /\ ppos' = after_file(idx, files)
    /\ target' = 0
    /\ result' = None
    /\ course_name' = <<>>
    /\ week_num' = 0
    /\ seq' = 0
    /\ md_content' = <<>>
    /\ meta' = NoMeta

\* sys.exit(code)
Exit(code) ==
    /\ exit_code' = code
    /\ ppos' = "exited"

InitPipeline ==
    /\ PostIdle
    /\ ArchiveIdle
    /\ GenIdle
    /\ events = TermCalendar
    /\ semester_start = 0
    /\ target = 0
    /\ result = None
    /\ mpc = "idle"
    /\ inbox \in SUBSET FileNames
    /\ moved = {}
    /\ files = <<>>
    /\ idx = 0
    /\ ppos = "start"
    /\ vault = <<>>
    /\ meta = NoMeta
    /\ read_set = {}
    /\ llm_sent = {}
    /\ written = {}
    /\ made_dirs = {}
    /\ fate = [f \in FileNames |-> "pending"]
    /\ skip_cause = [f \in FileNames |-> "none"]
    /\ gen_failed = {}
    /\ started = <<>>
    /\ exit_code = 0
    /\ runs = 1
    /\ retry_due = {}

\* main, step 2: the input directory is scanned and the names sorted
Scan ==
    /\ ppos = "start"
    /\ files' = sorted_files(inbox)
    /\ IF inbox = {}
       THEN idx' = 0 /\ ppos' = "finished"
       ELSE idx' = 1 /\ ppos' = "timestamp"
    /\ UNCHANGED <<inbox, moved, vault, meta, read_set, llm_sent, written,
                  made_dirs, fate, skip_cause, gen_failed, started,
                  exit_code, runs, retry_due, target, result, course_name,
                  week_num, seq, md_content>>
    /\ UNCHANGED pipe_rest_vars

\* step a: the file name or the ctime gives the timestamp
TimestampFound ==
    /\ ppos = "timestamp"
    /\ \E t \in RecordingTimes : target' = t
    /\ started' = Append(started, CurrentFile)
    /\ fate' = [fate EXCEPT ![CurrentFile] = "processing"]
    /\ ppos' = "match"
    /\ UNCHANGED <<inbox, moved, files, idx, vault, meta, read_set, llm_sent,
                  written, made_dirs, skip_cause, gen_failed, exit_code,
                  runs, retry_due, result, course_name, week_num, seq,
                  md_content>>
    /\ UNCHANGED pipe_rest_vars

\* step a: no timestamp in the name and stat() raises: the file is skipped
TimestampMissing ==
    /\ ppos = "timestamp"
    /\ started' = Append(started, CurrentFile)
    /\ skip_cause' = [skip_cause EXCEPT ![CurrentFile] = "no_timestamp"]
    /\ fate' = [fate EXCEPT ![CurrentFile] = "skipped"]
    /\ Continue
    /\ UNCHANGED <<inbox, moved, files, vault, read_set, llm_sent, written,
                  made_dirs, gen_failed, exit_code, runs, retry_due>>
    /\ UNCHANGED pipe_rest_vars

\* step a: the calendar resolves the course
CourseMatched ==
    /\ ppos = "match"
    /\ ~match_course(events, target, semester_start).is_none
    /\ result' = match_course(events, target, semester_start)
    /\ ppos' = "read"
    /\ UNCHANGED <<inbox, moved, files, idx, vault, meta, read_set, llm_sent,
                  written, made_dirs, fate, skip_cause, gen_failed, started,
                  exit_code, runs, retry_due, target, course_name, week_num,
                  seq, md_content>>
    /\ UNCHANGED pipe_rest_vars

\* step a: no match, and a course name is typed in
CourseNamedByHand ==
    /\ ppos = "match"
    /\ match_course(events, target, semester_start).is_none
    /\ \E typed \in ManualInputs :
          LET user_input == strip(typed)
          IN  /\ manual_name_given(user_input)
              /\ skip_cause' = IF user_input = <<>>
                               THEN [skip_cause EXCEPT ![CurrentFile] = "unresolved"]
                               ELSE skip_cause
              /\ result' = [is_none |-> FALSE, course_name |-> user_input,
                            week_num |-> calc_week_num(target, semester_start)]
    /\ ppos' = "read"
    /\ UNCHANGED <<inbox, moved, files, idx, vault, meta, read_set, llm_sent,
                  written, made_dirs, fate, gen_failed, started, exit_code,
                  runs, retry_due, target, course_name, week_num, seq,
                  md_content>>
    /\ UNCHANGED pipe_rest_vars

\* step a: no match and no name typed in: the file is skipped
CourseUnresolved ==
    /\ ppos = "match"
    /\ match_course(events, target, semester_start).is_none
    /\ \E typed \in ManualInputs : ~manual_name_given(strip(typed))
    /\ skip_cause' = [skip_cause EXCEPT ![CurrentFile] = "unresolved"]
    /\ fate' = [fate EXCEPT ![CurrentFile] = "skipped"]
    /\ Continue
    /\ UNCHANGED <<inbox, moved, files, vault, read_set, llm_sent, written,
                  made_dirs, gen_failed, started, exit_code, runs, retry_due>>
    /\ UNCHANGED pipe_rest_vars

\* step b: the transcript is read
ReadTranscript ==
    /\ ppos = "read"
    /\ read_set' = read_set \cup {CurrentFile}
    /\ ppos' = "prepare"
    /\ UNCHANGED <<inbox, moved, files, idx, vault, meta, llm_sent, written,
                  made_dirs, fate, skip_cause, gen_failed, started,
                  exit_code, runs, retry_due, target, result, course_name,
                  week_num, seq, md_content>>
    /\ UNCHANGED pipe_rest_vars

\* step b: read_text raises: the file is skipped
ReadFails ==
    /\ ppos = "read"
    /\ skip_cause' = [skip_cause EXCEPT ![CurrentFile] = "unreadable"]
    /\ fate' = [fate EXCEPT ![CurrentFile] = "skipped"]
    /\ Continue
    /\ UNCHANGED <<inbox, moved, files, vault, read_set, llm_sent, written,
                  made_dirs, gen_failed, started, exit_code, runs, retry_due>>
    /\ UNCHANGED pipe_rest_vars

\* step c: the manager makes the directories; sequence number and meta
PrepareArchive ==
    /\ ppos = "prepare"
    /\ LET name == IF result.course_name = <<>> THEN DefaultCourse
                   ELSE result.course_name
           base == sanitize_filename(name)
           next == get_next_sequence_num(
                       Directory(mkdirs(vault, base)[base].notes, OldNote))
       IN  /\ course_name' = name
           /\ week_num' = result.week_num
           /\ vault' = mkdirs(vault, base)
           /\ made_dirs' = IF base \in DOMAIN vault THEN made_dirs
                           ELSE made_dirs \cup {<<CurrentFile, base>>}
           /\ seq' = next
           /\ meta' = [sequence |-> next,
                       transcript_filename |->
                           main_transcript_filename(next, result.week_num, name)]
    /\ ppos' = "generate"
    /\ UNCHANGED <<inbox, moved, files, idx, read_set, llm_sent, written,
                  fate, skip_cause, gen_failed, started, exit_code, runs,
                  retry_due, target, result, md_content>>
    /\ UNCHANGED pipe_rest_vars

\* step c: mkdir raises, which nothing catches: the process dies
PrepareCrashes ==
    /\ ppos = "prepare"
    /\ fate' = [fate EXCEPT ![CurrentFile] = "crashed"]
    /\ Exit(1)
    /\ UNCHANGED <<inbox, moved, files, idx, vault, meta, read_set, llm_sent,
                  written, made_dirs, skip_cause, gen_failed, started, runs,
                  retry_due, target, result, course_name, week_num, seq,
                  md_content>>
    /\ UNCHANGED pipe_rest_vars

\* step d: generate_note returns a note
GenerateReturns ==
    /\ ppos = "generate"
    /\ llm_sent' = llm_sent \cup {CurrentFile}
    /\ \E note_md \in GeneratedNotes \cup {<<>>} :
          /\ ~generation_failed(note_md)
          /\ gen_failed' = IF note_md = <<>> THEN gen_failed \cup {CurrentFile}
                           ELSE gen_failed
          /\ md_content' = note_md
    /\ ppos' = "save_transcript"
    /\ UNCHANGED <<inbox, moved, files, idx, vault, meta, read_set, written,
                  made_dirs, fate, skip_cause, started, exit_code, runs,
                  retry_due, target, result, course_name, week_num, seq>>
    /\ UNCHANGED pipe_rest_vars

\* step d: generate_note returns None: exit code 2
GenerateFails ==
    /\ ppos = "generate"
    /\ llm_sent' = llm_sent \cup {CurrentFile}
    /\ generation_failed(<<>>)
    /\ gen_failed' = gen_failed \cup {CurrentFile}
    /\ retry_due' = retry_due \cup {CurrentFile}
    /\ fate' = [fate EXCEPT ![CurrentFile] = "aborted"]
    /\ Exit(2)
    /\ UNCHANGED <<inbox, moved, files, idx, vault, meta, read_set, written,
                  made_dirs, skip_cause, started, runs, target, result,
                  course_name, week_num, seq, md_content>>
    /\ UNCHANGED pipe_rest_vars

\* step e: save_transcript writes the transcript
SaveTranscriptOk ==
    /\ ppos = "save_transcript"
    /\ LET base == sanitize_filename(course_name)
           name == transcript_name(seq, week_num, course_name)
       IN  /\ vault' = [vault EXCEPT ![base].transcripts = @ \cup {name}]
           /\ written' = written \cup {<<CurrentFile, "transcript", name>>}
    /\ ppos' = "save_note"
    /\ UNCHANGED <<inbox, moved, files, idx, meta, read_set, llm_sent,
                  made_dirs, fate, skip_cause, gen_failed, started,
                  exit_code, runs, retry_due, target, result, course_name,
                  week_num, seq, md_content>>
    /\ UNCHANGED pipe_rest_vars

\* step e: save_transcript raises: exit code 3
SaveTranscriptFails ==
    /\ ppos = "save_transcript"
    /\ fate' = [fate EXCEPT ![CurrentFile] = "aborted"]
    /\ Exit(3)
    /\ UNCHANGED <<inbox, moved, files, idx, vault, meta, read_set, llm_sent,
                  written, made_dirs, skip_cause, gen_failed, started, runs,
                  retry_due, target, result, course_name, week_num, seq,
                  md_content>>
    /\ UNCHANGED pipe_rest_vars

\* step e: save_note writes the note
SaveNoteOk ==
    /\ ppos = "save_note"
    /\ LET base == sanitize_filename(course_name)
           name == note_name(seq, week_num, md_content)
       IN  /\ vault' = [vault EXCEPT ![base].notes = @ \cup {name}]
           /\ written' = written \cup {<<CurrentFile, "note", name>>}
    /\ ppos' = "move"
    /\ UNCHANGED <<inbox, moved, files, idx, meta, read_set, llm_sent,
                  made_dirs, fate, skip_cause, gen_failed, started,
                  exit_code, runs, retry_due, target, result, course_name,
                  week_num, seq, md_content>>
    /\ UNCHANGED pipe_rest_vars

\* step e: save_note raises before the rename: exit code 3
SaveNoteFails ==
    /\ ppos = "save_note"
    /\ fate' = [fate EXCEPT ![CurrentFile] = "aborted"]
    /\ Exit(3)
    /\ UNCHANGED <<inbox, moved, files, idx, vault, meta, read_set, llm_sent,
                  written, made_dirs, skip_cause, gen_failed, started, runs,
                  retry_due, target, result, course_name, week_num, seq,
                  md_content>>
    /\ UNCHANGED pipe_rest_vars

\* step f: the source is moved to the processed directory
MoveSourceOk ==
    /\ ppos = "move"
    /\ inbox' = inbox \ {CurrentFile}
    /\ moved' = moved \cup {CurrentFile}
    /\ retry_due' = retry_due \ {CurrentFile}
    /\ fate' = [fate EXCEPT ![CurrentFile] = "done"]
    /\ Continue
    /\ UNCHANGED <<files, vault, read_set, llm_sent, written, made_dirs,
                  skip_cause, gen_failed, started, exit_code, runs>>
    /\ UNCHANGED pipe_rest_vars

\* step f: the move raises: exit code 4
MoveSourceFails ==
    /\ ppos = "move"
    /\ fate' = [fate EXCEPT ![CurrentFile] = "aborted"]
    /\ Exit(4)
    /\ UNCHANGED <<inbox, moved, files, idx, vault, meta, read_set, llm_sent,
                  written, made_dirs, skip_cause, gen_failed, started, runs,
                  retry_due, target, result, course_name, week_num, seq,
                  md_content>>
    /\ UNCHANGED pipe_rest_vars

\* the scheduler starts the program again: the directories are all that is kept
NextRun ==
    /\ ppos \in {"finished", "exited"}
    /\ runs < MaxRuns
    /\ runs' = runs + 1
    /\ files' = <<>>
    /\ idx' = 0
    /\ ppos' = "start"
    /\ target' = 0
    /\ result' = None
    /\ course_name' = <<>>
    /\ week_num' = 0
    /\ seq' = 0
    /\ md_content' = <<>>
    /\ meta' = NoMeta
    /\ read_set' = {}
    /\ llm_sent' = {}
    /\ written' = {}
    /\ made_dirs' = {}
    /\ fate' = [f \in FileNames |-> "pending"]
    /\ skip_cause' = [f \in FileNames |-> "none"]
    /\ gen_failed' = {}
    /\ started' = <<>>
    /\ exit_code' = 0
    /\ UNCHANGED <<inbox, moved, vault, retry_due>>
    /\ UNCHANGED pipe_rest_vars

NextPipeline ==
    \/ Scan
    \/ TimestampFound
    \/ TimestampMissing
    \/ CourseMatched
    \/ CourseNamedByHand
    \/ CourseUnresolved
    \/ ReadTranscript
    \/ ReadFails
    \/ PrepareArchive
    \/ PrepareCrashes
    \/ GenerateReturns
    \/ GenerateFails
    \/ SaveTranscriptOk
    \/ SaveTranscriptFails
    \/ SaveNoteOk
    \/ SaveNoteFails
    \/ MoveSourceOk
    \/ MoveSourceFails
    \/ NextRun

SpecPipeline == InitPipeline /\ [][NextPipeline]_vars

(***************************************************************************)
(* Claims about the Archive Store                                          *)
(***************************************************************************)
\* C1: every allocated sequence number is greater than the sequence number of
\* every note already saved in the directory, and no save replaces an
\* existing note file.
C1_FreshSequence ==
    /\ (apc = "allocated") => \A n \in saved_seqs : seq > n
    /\ ~overwritten

\* the files the specification counts: the pattern, matched without regard to
\* case, and no "Transcript" in the name
SpecCounted ==
    { n \in DOMAIN notes_dir :
        pattern_match(n) /\ find_lit(n, 1, TranscriptWord) = 0 }

\* C9: the allocated number is the greatest leading number of the counted
\* files plus one, and 1 when there is none.
C9_NextSequence ==
    (apc = "allocated") =>
        IF SpecCounted = {} THEN seq = 1
        ELSE /\ \E n \in SpecCounted : seq = group_int(n) + 1
             /\ \A n \in SpecCounted : seq > group_int(n)

\* C10: while save_note runs, and after an interruption of it, the final path
\* is absent, or holds the whole previous file, or the whole new content; what
\* is partly written lies in a temporary file only.
C10_AtomicNoteWrite ==
    (final_path # <<>>) =>
        /\ IF final_path \in DOMAIN notes_dir
           THEN \/ notes_dir[final_path] = md_content
                \/ before.exists /\ notes_dir[final_path] = before.data
           ELSE ~before.exists
        /\ \A n \in (DOMAIN notes_dir) \ TmpNames :
              notes_dir[n] \in NoteBodies \cup {OldNote}

\* interrupted with half of the new content written: the final path still
\* holds the whole previous note, the half lies in the temporary file
C10_Witness ==
    /\ apc = "interrupted"
    /\ before.exists
    /\ before.data # md_content
    /\ notes_dir[final_path] = before.data
    /\ tmp_path \in TmpNames
    /\ notes_dir[tmp_path] # <<>>
    /\ notes_dir[tmp_path] # md_content

(***************************************************************************)
(* Claims about _post_process_note                                         *)
(***************************************************************************)
Processed == ppc \in {"once", "twice"}

\* the headings the two patterns of the code accept, among ResponseLines
RecognisedHeadings == { HeadingPlain, HeadingEmoji }

\* the heading variants the specification names: with or without the emoji,
\* Chinese or English naming, any letter case
HeadingVariants ==
    { HeadingPlain, HeadingEmoji, HeadingLowerCase, HeadingEnglish }

LevelTwoHeading(line) == lit_at(line, 1, <<"#", "#", " ">>)

\* for each line, whether it lies inside the flashcard section: after the
\* flashcard heading and before the next level-2 heading
RECURSIVE InsideSection(_, _, _)
InsideSection(lines, k, inside) ==
    IF k > Len(lines) THEN <<>>
    ELSE IF lines[k] \in RecognisedHeadings
         THEN <<FALSE>> \o InsideSection(lines, k + 1, TRUE)
         ELSE IF inside /\ LevelTwoHeading(lines[k])
         THEN <<FALSE>> \o InsideSection(lines, k + 1, FALSE)
         ELSE <<inside>> \o InsideSection(lines, k + 1, inside)

\* a cloze marker core {cN:: begins at position i
MarkerAt(line, i) ==
    /\ lit_at(line, i, <<"{", "c">>)
    /\ i + 2 <= Len(line)
    /\ IsDigit(line[i + 2])
    /\ lit_at(line, skip_digits(line, i + 2), <<":", ":">>)

\* the marker that begins at i is exactly {{c1::text}}
CanonicalAt(line, i) ==
    /\ lit_at(line, i - 1, <<"{", "{", "c", "1", ":", ":">>)
    /\ (i = 2 \/ line[i - 2] # "{")
    /\ LET k == lazy_until(line, i + 5, <<"}">>)
       IN  /\ k > 0
           /\ lit_at(line, k, <<"}", "}">>)
           /\ ~lit_at(line, k, <<"}", "}", "}">>)

HasCloze(line) ==
    \E i \in 1..Len(line) : single_brace_cloze(line, i)[2] > 0

\* C5: post-processing is idempotent.
C5_Idempotent == (ppc = "twice") => (twice = once)

\* C6: after post-processing every cloze marker on every line inside the
\* flashcard section has exactly the form {{c1::text}}.
C6_CanonicalInside ==
    Processed =>
        LET lines == splitlines(once)
            inside == InsideSection(lines, 1, FALSE)
        IN  \A k \in DOMAIN lines :
                inside[k] =>
                    \A i \in 1..Len(lines[k]) :
                        MarkerAt(lines[k], i) => CanonicalAt(lines[k], i)

\* C7: after post-processing no cloze marker of any form remains on a line
\* outside the flashcard section: before the flashcard heading, on the heading
\* that ends the section, or after it.
C7_NoClozeOutside ==
    Processed =>
        LET lines == splitlines(once)
            inside == InsideSection(lines, 1, FALSE)
        IN  \A k \in DOMAIN lines : ~inside[k] => ~HasCloze(lines[k])

CountLine(h, lines) == Cardinality({ k \in DOMAIN lines : lines[k] = h })

HasBulletPrefix(line) ==
    LET i == skip_spaces(line, 1)
    IN  lit_at(line, i, <<"-">>) /\ i + 1 <= Len(line) /\ IsSpace(line[i + 1])

IsBlank(line) == strip(line) = <<>>

BulletLines(lines) == { k \in DOMAIN lines : HasBulletPrefix(lines[k]) }

\* C16: after post-processing no line inside the flashcard section begins
\* with a list bullet, the line after every flashcard heading is blank and
\* the line after that one is not (exactly one blank line follows the
\* heading, whatever followed it in the input), and a text without a
\* flashcard section keeps all its bullet lines.
C16_BulletsAndBlankLine ==
    Processed =>
        LET lines == splitlines(once)
            inside == InsideSection(lines, 1, FALSE)
        IN  /\ \A k \in DOMAIN lines : inside[k] => ~HasBulletPrefix(lines[k])
            /\ \A k \in DOMAIN lines :
                  (lines[k] \in RecognisedHeadings) =>
                      /\ k + 1 <= Len(lines)
                      /\ IsBlank(lines[k + 1])
                      /\ (k + 2 <= Len(lines)) => ~IsBlank(lines[k + 2])
            /\ (\A k \in DOMAIN splitlines(content) :
                      splitlines(content)[k] \notin RecognisedHeadings) =>
                  Cardinality(BulletLines(lines))
                      = Cardinality(BulletLines(splitlines(content)))

(***************************************************************************)
(* Claims about main()                                                     *)
(***************************************************************************)
Scanned == { files[i] : i \in DOMAIN files }

Started == { started[i] : i \in DOMAIN started }

WrittenFor(f) == { w \in written : w[1] = f }

DirsMadeFor(f) == { m \in made_dirs : m[1] = f }

\* C11: when generate_note returns nothing for a file the process has exited
\* with code 2, the file is Aborted and still in the input directory (not in
\* the processed one), no transcript or note was written to the vault for it,
\* and the scan of a later run lists it as long as it has not been archived.
C11_GenerationFailureAborts ==
    /\ \A f \in gen_failed :
          /\ ppos = "exited"
          /\ exit_code = 2
          /\ fate[f] = "aborted"
          /\ f \in inbox
          /\ f \notin moved
          /\ WrittenFor(f) = {}
    /\ \A f \in retry_due :
          /\ f \in inbox
          /\ (ppos \notin {"start", "off"}) => f \in Scanned

\* a run ended with exit code 2 after an earlier file of the run was archived,
\* and the file that failed had been left by an earlier run for the same reason
C11_Witness ==
    /\ ppos = "exited"
    /\ exit_code = 2
    /\ runs = 2
    /\ written # {}
    /\ \E f \in gen_failed : f \in retry_due /\ f \in inbox /\ started[Len(started)] = f

Untouched(g) ==
    /\ g \notin Started
    /\ g \notin read_set
    /\ g \notin llm_sent
    /\ WrittenFor(g) = {}
    /\ g \in inbox
    /\ g \notin moved
    /\ fate[g] = "pending"

\* C12: the files are begun one at a time in the sort order of their names;
\* once a file is Aborted no later file of the order is read, sent to the
\* model, written to the vault or moved; and a run that has ended either
\* aborted (or died) on some file or brought every scanned file to Done or
\* Skipped, so a Skipped file never keeps the later files from being processed.
C12_SortedOrderAndAbort ==
    /\ \A i, j \in DOMAIN started : (i < j) => name_less(started[i], started[j])
    /\ \A f \in Started : \A g \in Scanned \ Started : name_less(f, g)
    /\ Cardinality({ f \in DOMAIN fate : fate[f] = "processing" }) <= 1
    /\ \A f \in DOMAIN fate :
          (fate[f] = "aborted") =>
              \A g \in Scanned : name_less(f, g) => Untouched(g)
    /\ (ppos \in {"finished", "exited"}) =>
          \/ \E f \in DOMAIN fate : fate[f] \in {"aborted", "crashed"}
          \/ \A g \in Scanned : fate[g] \in {"skipped", "done"}

\* the first file was skipped, the second was processed up to a failed save,
\* and the third, still in the input directory, was never begun
C12_Witness ==
    /\ ppos = "exited"
    /\ exit_code = 3
    /\ Len(files) = 3
    /\ fate[files[1]] = "skipped"
    /\ fate[files[2]] = "aborted"
    /\ files[2] \in llm_sent
    /\ Untouched(files[3])

\* C13: a file that could not be given a timestamp, whose course neither the
\* calendar nor a typed name resolved, or that could not be read, is Skipped:
\* it stays in the input directory, no course directory, transcript or note
\* was created for it, and it was not handed to the language model.
C13_SkippedLeavesNoTrace ==
    \A f \in DOMAIN skip_cause :
        (skip_cause[f] # "none") =>
            /\ fate[f] = "skipped"
            /\ f \in inbox
            /\ f \notin moved
            /\ f \notin llm_sent
            /\ DirsMadeFor(f) = {}
            /\ WrittenFor(f) = {}

\* a file whose course was not resolved was skipped and a later file of the
\* same run was archived, in a directory made for that later file
C13_Witness ==
    \E f, g \in FileNames :
        /\ skip_cause[f] = "unresolved"
        /\ fate[f] = "skipped"
        /\ f \in inbox
        /\ name_less(f, g)
        /\ fate[g] = "done"
        /\ DirsMadeFor(g) # {}
        /\ DOMAIN vault # {}

\* C17: once save_transcript has written the transcript of a file, the name
\* it wrote under Transcripts is the transcript_filename of the meta handed
\* to generate_note for that file.
C17_TranscriptFilenameAgrees ==
    (ppos = "save_note") =>
        /\ meta.transcript_filename
              \in vault[sanitize_filename(course_name)].transcripts
        /\ <<CurrentFile, "transcript", meta.transcript_filename>> \in written

(***************************************************************************)
(* Claims about generate_note                                              *)
(***************************************************************************)
\* the attempt raised an error or the model returned empty content
AttemptFailed(a) == a.raised \/ strip(a.reply) = <<>>

\* the attempt raised an error or its content is empty once post-processed
AttemptLeftNothing(a) == a.raised \/ post_process_note(strip(a.reply)) = <<>>

LastAttempt == attempts[Len(attempts)]

\* C14 as stated: generate_note calls the model at most the configured retry
\* count of times (at least once), stops at the first attempt that yields
\* non-empty content and returns it post-processed, sleeps the delay between
\* consecutive attempts and not after the last, and fails if and only if
\* every attempt raised or returned empty content.
C14_RetryContract ==
    /\ calls + fix_calls <= Max2(1, llm_retry_count)
    /\ \A i \in 1..(Len(attempts) - 1) : AttemptFailed(attempts[i])
    /\ (gpc = "returned") =>
          /\ calls + fix_calls >= 1
          /\ sleeps = Len(attempts) - 1
          /\ returned.is_none <=> \A i \in DOMAIN attempts : AttemptFailed(attempts[i])
          /\ ~returned.is_none =>
                returned.text = post_process_note(strip(LastAttempt.reply))

\* C14, amended: at most max(1, retry count) note requests, one per attempt,
\* and at most one second-pass request, sent in the attempt that returns; an
\* attempt is retried when it raised or its content is empty after
\* post-processing; the first attempt with content left returns it
\* post-processed, or with the second-pass rewrite of the flashcard section in
\* it; the delay is slept between consecutive attempts and not after the last;
\* None is returned exactly when every attempt raised or left nothing.
C14_RetryContractProcessed ==
    /\ calls = Len(attempts)
    /\ calls <= Max2(1, llm_retry_count)
    /\ fix_calls <= 1
    /\ (fix_calls = 1) => (gpc = "returned" /\ ~returned.is_none)
    /\ \A i \in 1..(Len(attempts) - 1) : AttemptLeftNothing(attempts[i])
    /\ (gpc = "returned") =>
          /\ calls >= 1
          /\ sleeps = Len(attempts) - 1
          /\ returned.is_none <=>
                \A i \in DOMAIN attempts : AttemptLeftNothing(attempts[i])
          /\ returned.is_none => Len(attempts) = Max2(1, llm_retry_count)
          /\ ~returned.is_none =>
                IF LastAttempt.fix_sent /\ second_pass_fix(LastAttempt.fix) # <<>>
                THEN /\ has_double_cloze(returned.text)
                     /\ is_anki_heading(splitlines(returned.text)[
                            first_anki_heading(splitlines(returned.text), 1)])
                ELSE returned.text = post_process_note(strip(LastAttempt.reply))

\* the first attempt's answer was not empty but nothing was left of it, the
\* delay was slept once, and the second attempt returned a note whose
\* flashcard section the second pass rewrote
C14_Witness ==
    /\ gpc = "returned"
    /\ Len(attempts) = 2
    /\ ~attempts[1].raised
    /\ strip(attempts[1].reply) # <<>>
    /\ AttemptLeftNothing(attempts[1])
    /\ sleeps = 1
    /\ calls = 2
    /\ fix_calls = 1
    /\ ~returned.is_none
    /\ returned.text # post_process_note(strip(attempts[2].reply))

(***************************************************************************)
(* Claims about match_course                                               *)
(***************************************************************************)
CoveringIdx == { i \in DOMAIN events : covers(events[i], target) }

EdgeDist(i) ==
    Min2(Abs(events[i].begin - target), Abs(events[i].end - target))

MinEdge == CHOOSE d \in { EdgeDist(i) : i \in DOMAIN events } :
               \A j \in DOMAIN events : d <= EdgeDist(j)

\* C2: when some event covers the timestamp, match returns (never none) the
\* trimmed name of the covering event whose begin is closest to the timestamp,
\* and among equally close ones the first of the begin-sorted list.
C2_CoveringMatch ==
    (mpc = "matched" /\ CoveringIdx # {}) =>
        LET best == CHOOSE i \in CoveringIdx :
                        \A j \in CoveringIdx :
                            \/ Abs(events[i].begin - target) < Abs(events[j].begin - target)
                            \/ /\ Abs(events[i].begin - target) = Abs(events[j].begin - target)
                               /\ i <= j
        IN  /\ result # None
            /\ result.course_name = strip(events[best].name)

\* two covering events of different begin and name; the later-starting one wins
C2_Witness ==
    /\ mpc = "matched"
    /\ Cardinality(CoveringIdx) = 2
    /\ \E i, j \in CoveringIdx :
          /\ events[i].begin < events[j].begin
          /\ strip(events[i].name) # strip(events[j].name)
          /\ result # None
          /\ result.course_name = strip(events[j].name)

\* C3 as stated: a timestamp farther than 3600 seconds from every event edge
\* is never matched.
C3_FarFromEdgesIsNone ==
    (mpc = "matched" /\ events # <<>> /\ MinEdge > 3600) => result = None

\* C3 amended: a timestamp that no event covers and that is farther than 3600
\* seconds from every event edge is not matched.
C3_UncoveredFarIsNone ==
    (mpc = "matched" /\ events # <<>> /\ CoveringIdx = {} /\ MinEdge > 3600)
        => result = None

C3_Witness ==
    /\ mpc = "matched"
    /\ events # <<>>
    /\ CoveringIdx = {}
    /\ MinEdge = 5400
    /\ result = None

\* C4: when no event covers the timestamp, match returns an event of minimal
\* edge distance if and only if that distance is at most 3600 seconds.
C4_NearestEdgeInclusive ==
    (mpc = "matched" /\ events # <<>> /\ CoveringIdx = {}) =>
        /\ (result # None) <=> (MinEdge <= 3600)
        /\ (result # None) =>
              \E i \in DOMAIN events :
                  /\ EdgeDist(i) = MinEdge
                  /\ result.course_name = strip(events[i].name)

\* exactly 3600 seconds from the nearest edge, with a farther event of another
\* name in the list: the nearest one is returned
C4_Witness ==
    /\ mpc = "matched"
    /\ Len(events) = 2
    /\ CoveringIdx = {}
    /\ MinEdge = 3600
    /\ \E i, j \in DOMAIN events :
          /\ EdgeDist(i) = 3600
          /\ EdgeDist(j) > 3600
          /\ strip(events[i].name) # strip(events[j].name)
          /\ result # None
          /\ result.course_name = strip(events[i].name)

(***************************************************************************)
(* Claims about the week number                                            *)
(***************************************************************************)
\* the calendar date of a timestamp, as a day number
DateOf(t) == CHOOSE day \in (0 - MaxDay - 1)..(MaxDay + 1) :
                 day * 86400 <= t /\ t < (day + 1) * 86400

DaysSinceStart == DateOf(target) - semester_start

\* C15: the week number returned with a match is max(1, 1 + floor(days / 7))
\* of the days between the semester start and the timestamp's date: at least
\* 1, 1 for a date before the start or in its first 7 days, 2 on the date 7
\* days after the start, and from the start on the week that holds the date.
C15_WeekNumber ==
    (mpc = "matched" /\ ~result.is_none) =>
        /\ result.week_num >= 1
        /\ (DaysSinceStart < 7) => (result.week_num = 1)
        /\ (DaysSinceStart = 7) => (result.week_num = 2)
        /\ (DaysSinceStart >= 0) =>
              /\ 7 * (result.week_num - 1) <= DaysSinceStart
              /\ DaysSinceStart < 7 * result.week_num

\* a recording at 14:30 of the date 7 days after the semester start, inside
\* the lecture, is matched with week 2
C15_Witness ==
    /\ mpc = "matched"
    /\ events = <<LectureEvent>>
    /\ ~result.is_none
    /\ DaysSinceStart = 7
    /\ target = (semester_start + 7) * 86400 + 52200
    /\ result.week_num = 2

====
